---- MODULE Spec2Model ----
(***************************************************************************)
(* The neutron-heatmap core: the Systems class of systems.py.  A parsed    *)
(* JSON document is normalised into a data frame, narrowed to the systems  *)
(* whose main star is a neutron star (the catalog, _all_systems), and a    *)
(* current selection (_selected_systems) is replaced by zoom_in/zoom_out   *)
(* and read by display/save.                                               *)
(*                                                                         *)
(* A data frame is [columns, rows]: the set of column names and the        *)
(* sequence of rows.  A row is a function from "index" (the pandas index   *)
(* label) and from the columns for which the row holds a value; a column   *)
(* of the frame that is not in the domain of a row is NaN in that row.     *)
(*                                                                         *)
(* Four specifications share the methods of Systems:                       *)
(*   Spec         the calls on one Systems object, over every document;    *)
(*   SessionSpec  the Console (console.py) or the GUI (gui.py) driving a   *)
(*                Systems object: command text and its parsing, the worker *)
(*                thread of the GUI, its buttons and <<LongOpComplete>>;   *)
(*   RenderSpec   frame objects by identity, with zooms running between    *)
(*                the start and the end of a render;                       *)
(*   RevisionSpec the standalone script neutron-heatmap.py and the Console *)
(*                given the same lines on the same document.               *)
(***************************************************************************)
EXTENDS Integers, Sequences, FiniteSets, TLC

\* ---------------------------------------------------------------- bounds
\* Longest input document (number of JSON objects).
MaxDocLen == 2
\* Zoom corners range over 0..MaxCoord on both axes, system coordinates
\* over 1..MaxCoord, so that a system can lie below, on the lower edge of,
\* inside, on the upper edge of, and above a window.
MaxCoord == 2

\* ------------------------------------------------------- input documents
NeutronStar == "Neutron Star"

CornerValues == 0..MaxCoord
SystemCoords == 1..MaxCoord
Corners == CornerValues \X CornerValues
Filenames == {"heatmap.html", "other.html"}

\* Every object of a dump carries fields the core does not read.
Base == [name |-> "Sol"]

\* What an object says about its main star: nothing, the field the code
\* reads (exact or in another case), or a field of another name.
StarOptions ==
    { Base,
      [mainStar |-> NeutronStar],
      [mainStar |-> "neutron star"],
      [mainStarType |-> NeutronStar] }

CoordOptions ==
    {Base} \cup { [coords |-> [x |-> x, z |-> z]] : x \in SystemCoords, z \in SystemCoords }

\* The objects a document is made of.  The objects that the star filter
\* drops matter to the core only through the columns they bring, so they
\* come with no coordinates or with one fixed pair.
Objects ==
    { Base @@ [mainStar |-> NeutronStar] @@ c : c \in CoordOptions }
    \cup
    { Base @@ s @@ c : s \in StarOptions \ {[mainStar |-> NeutronStar]},
                       c \in {Base, [coords |-> [x |-> 1, z |-> 1]]} }

Documents == UNION { [1..n -> Objects] : n \in 0..MaxDocLen }

\* What json.load can return: an array of objects, one object, or a scalar
\* (number, string, true, false, null).  json_data holds the objects; a
\* scalar has none.
JsonTypes == {"list", "dict", "scalar"}
DocumentsOfType(type) ==
    CASE type = "list"   -> Documents
      [] type = "dict"   -> { <<obj>> : obj \in Objects }
      [] type = "scalar" -> { <<>> }

\* ------------------------------------------------------------ data frames
EmptyFrame == [columns |-> {}, rows |-> <<>>]

\* pandas.json_normalize on one object: top-level scalars keep their key,
\* the nested "coords" object is expanded to "coords.<key>" columns.
FlatKeys(obj) ==
    (DOMAIN obj \ {"coords"})
    \cup (IF "coords" \in DOMAIN obj
          THEN { "coords." \o k : k \in DOMAIN obj.coords }
          ELSE {})

FlatValue(obj, col) ==
    IF col \in DOMAIN obj THEN obj[col]
    ELSE IF col = "coords.x" THEN obj.coords.x
    ELSE obj.coords.z

\* Row i of the normalised frame (pandas labels rows from 0).
FlatRow(obj, i) ==
    [col \in {"index"} \cup FlatKeys(obj) |->
        IF col = "index" THEN i - 1 ELSE FlatValue(obj, col)]

\* json_normalize takes a list of objects, wraps a single object into a list
\* of one, and raises NotImplementedError on a scalar.
NormalizeRaises(type) == type = "scalar"

json_normalize(doc) ==
    [columns |-> UNION { FlatKeys(doc[i]) : i \in DOMAIN doc },
     rows    |-> [i \in DOMAIN doc |-> FlatRow(doc[i], i)]]

\* A query names a column; pandas raises UndefinedVariableError when the
\* frame has no such column.
QueryRaises(df, col) == col \notin df.columns

\* One comparison of a query expression, on a value that is not NaN.
Compare(v, op, operand) ==
    CASE op = "==" -> v = operand
      [] op = ">"  -> v > operand
      [] op = "<"  -> v < operand
      [] op = ">=" -> v >= operand
      [] op = "<=" -> v <= operand

\* DataFrame.query("<col> <op> <operand>"): the rows whose value passes the
\* comparison, in the frame's order; a NaN passes no comparison.
Query(df, col, op, operand) ==
    [columns |-> df.columns,
     rows    |-> SelectSeq(df.rows,
                    LAMBDA r : col \in DOMAIN r /\ Compare(r[col], op, operand))]

\* ------------------------------------------------------------------ state
VARIABLES
    json_type,           \* what kind of JSON value the document is
    json_data,           \* the parsed document handed to Systems(...)
    systems,             \* "unconstructed", "ready" (the object exists) or "failed"
    _all_systems,        \* Systems._all_systems: the catalog
    _selected_systems,   \* Systems._selected_systems: the current selection
    call,                \* the call on the core that has just ended, with its
                         \* arguments and outcome; Idle once the caller has taken it
    trace,               \* what that call did, in order: log lines, assignments,
                         \* renderer invocations
    console,             \* the Console front end: where its request_loop is
    gui,                 \* the GUI front end: its fields, worker thread and events
    memory,              \* the frame objects behind the two attributes of Systems
    script               \* the standalone script neutron-heatmap.py: its loop and
                         \* the two frames it holds

vars == <<json_type, json_data, systems, _all_systems, _selected_systems, call, trace,
          console, gui, memory, script>>

\* What the methods of Systems leave alone.
outside == <<json_type, console, gui, memory, script>>

\* The front ends, the object store and the standalone script when they are
\* not looked at.
NoScript ==
    [pc |-> "none", cmd |-> <<>>, all_systems |-> EmptyFrame,
     selected_systems |-> EmptyFrame, plain |-> TRUE]
Buttons == {"Display", "Zoom In", "Zoom Out"}
NoWorker == [fn |-> "none", pc |-> "none", entries |-> <<>>]
NoConsole == [pc |-> "none", cmd_tokens |-> <<>>, out |-> <<>>]
NoGUI ==
    [pc |-> "none", _longop_thread |-> "None", _systems |-> "None",
     _status_text |-> "None",
     buttons |-> [b \in Buttons |-> "normal"], progressbar |-> "none",
     events |-> 0, raised |-> "none", worker |-> NoWorker]
\* The frame objects: an attribute of Systems and the argument of a renderer
\* hold the identity of a frame, the heap holds its contents.  No frame
\* exists before construction.
ObjectIds == 1..4
NotRendering == [pc |-> "idle", op |-> "none", data |-> 0, handed |-> EmptyFrame]
NoMemory ==
    [heap |-> [id \in ObjectIds |-> EmptyFrame], all |-> 0, selected |-> 0,
     render |-> NotRendering]

\* Harcoded number of X and Y bins of the heatmap.
nbinsx == 1000
nbinsy == 1000

\* No call is pending: the caller is back at its prompt.
Idle == [op |-> "none"]

\* The events of a trace.
Log(msg) == <<"log", msg>>
Assign(attr) == <<"assign", attr>>
DensityHeatmap(data) == <<"density_heatmap", data, "coords.x", "coords.z", nbinsx, nbinsy>>
Show == <<"show">>
WriteHtml(filename) == <<"write_html", filename>>

\* ------------------------------------------------------------ Systems code
\* Faulty variant of StarFilter: the comparison ignores case.
StarFilterAnyCase(normalized_data) ==
    [columns |-> normalized_data.columns,
     rows    |-> SelectSeq(normalized_data.rows,
                    LAMBDA r : "mainStar" \in DOMAIN r
                               /\ r.mainStar \in {NeutronStar, "neutron star"})]

\* Only keep systems where the *main* star is a Neutron Star.
StarFilter(normalized_data) ==
    Query(normalized_data, "mainStar", "==", NeutronStar)

\* Faulty variant of InitialSelection: nothing is selected until the first zoom.
InitialSelectionNone(all) == [columns |-> all.columns, rows |-> <<>>]

\* Select all systems by default.
InitialSelection(all) == all

\* Faulty variant of min_x: the first corner is taken for the lower one.
min_x_first(coord_0, coord_1) == coord_0[1]

min_x(coord_0, coord_1) == IF coord_0[1] <= coord_1[1] THEN coord_0[1] ELSE coord_1[1]
max_x(coord_0, coord_1) == IF coord_0[1] >= coord_1[1] THEN coord_0[1] ELSE coord_1[1]
min_z(coord_0, coord_1) == IF coord_0[2] <= coord_1[2] THEN coord_0[2] ELSE coord_1[2]
max_z(coord_0, coord_1) == IF coord_0[2] >= coord_1[2] THEN coord_0[2] ELSE coord_1[2]

\* Faulty variant of WindowQuery: the upper x bound is inclusive.
WindowQueryUpperInclusive(df, coord_0, coord_1) ==
    Query(Query(Query(Query(df,
        "coords.x", ">", min_x(coord_0, coord_1)),
        "coords.x", "<=", max_x(coord_0, coord_1)),
        "coords.z", ">", min_z(coord_0, coord_1)),
        "coords.z", "<", max_z(coord_0, coord_1))

\* The four chained queries of zoom_in, on the frame they are applied to.
WindowQuery(df, coord_0, coord_1) ==
    Query(Query(Query(Query(df,
        "coords.x", ">", min_x(coord_0, coord_1)),
        "coords.x", "<", max_x(coord_0, coord_1)),
        "coords.z", ">", min_z(coord_0, coord_1)),
        "coords.z", "<", max_z(coord_0, coord_1))

\* The chain raises at its first query on a column the frame lacks.
WindowQueryRaises(df) == QueryRaises(df, "coords.x") \/ QueryRaises(df, "coords.z")

\* Faulty variant of ZoomInSelection: the window narrows the current selection.
ZoomInSelectionCumulative(all, selected, coord_0, coord_1) ==
    WindowQuery(selected, coord_0, coord_1)

\* Faulty variant of ZoomInSelection: the window is added to the selection.
ZoomInSelectionAppended(all, selected, coord_0, coord_1) ==
    [columns |-> all.columns,
     rows    |-> selected.rows \o WindowQuery(all, coord_0, coord_1).rows]

\* The selection zoom_in assigns, from the object's two frames.
ZoomInSelection(all, selected, coord_0, coord_1) == WindowQuery(all, coord_0, coord_1)

\* Faulty variant of ZoomOutSelection: the current selection is kept.
ZoomOutSelectionKept(all, selected) == selected

\* Faulty variant of ZoomOutSelection: zooming out of the full catalog selects nothing.
ZoomOutSelectionToggle(all, selected) ==
    IF selected = all THEN [columns |-> all.columns, rows |-> <<>>] ELSE all

\* The selection zoom_out assigns, from the object's two frames.
ZoomOutSelection(all, selected) == all

\* Faulty variant of RenderedFrame: the whole catalog is rendered.
RenderedFrameAll(all, selected) == all

\* The frame display and save hand to the renderer.
RenderedFrame(all, selected) == selected

\* plotly's density_heatmap raises when the frame lacks a plotted column.
HeatmapRaises(df) == "coords.x" \notin df.columns \/ "coords.z" \notin df.columns

\* Faulty variant of ZoomInMessage: the line shows the window, lower corner
\* first, in place of the corners as they were supplied.
ZoomInMessageSorted(coord_0, coord_1) ==
    <<"Zooming in to area between coordinates (%d,%d) and (%d,%d)...",
      min_x(coord_0, coord_1), min_z(coord_0, coord_1),
      max_x(coord_0, coord_1), max_z(coord_0, coord_1)>>

ZoomInMessage(coord_0, coord_1) ==
    <<"Zooming in to area between coordinates (%d,%d) and (%d,%d)...",
      coord_0[1], coord_0[2], coord_1[1], coord_1[2]>>

\* ---------------------------------------------------------------- actions
Init ==
    /\ json_type \in JsonTypes
    /\ json_data \in DocumentsOfType(json_type)
    /\ console = NoConsole
    /\ gui = NoGUI
    /\ memory = NoMemory
    /\ script = NoScript
    /\ systems = "unconstructed"
    /\ _all_systems = EmptyFrame
    /\ _selected_systems = EmptyFrame
    /\ call = Idle
    /\ trace = <<>>

\* Systems.__init__
Systems_init ==
    /\ systems = "unconstructed"
    /\ call = Idle
    /\ LET normalized_data == json_normalize(json_data) IN
       IF NormalizeRaises(json_type)
       THEN /\ systems' = "failed"
            /\ call' = [op |-> "__init__", raised |-> TRUE]
            /\ trace' = <<Log("Normalizing data...")>>
            /\ UNCHANGED <<_all_systems, _selected_systems>>
       ELSE IF QueryRaises(normalized_data, "mainStar")
       THEN /\ systems' = "failed"
            /\ call' = [op |-> "__init__", raised |-> TRUE]
            /\ trace' = <<Log("Normalizing data..."), Log("Initializing database...")>>
            /\ UNCHANGED <<_all_systems, _selected_systems>>
       ELSE /\ systems' = "ready"
            /\ _all_systems' = StarFilter(normalized_data)
            /\ _selected_systems' = InitialSelection(StarFilter(normalized_data))
            /\ call' = [op |-> "__init__", raised |-> FALSE]
            /\ trace' = <<Log("Normalizing data..."), Log("Initializing database..."),
                          Assign("_all_systems"), Assign("_selected_systems"),
                          Log("Database initialized")>>
    /\ UNCHANGED json_data

\* Faulty variant of display: a failed viewer is tried a second time.
display_retries ==
    /\ systems = "ready"
    /\ call = Idle
    /\ \E fails \in BOOLEAN :
         LET data == RenderedFrame(_all_systems, _selected_systems) IN
         IF HeatmapRaises(data)
         THEN /\ call' = [op |-> "display", raised |-> TRUE]
              /\ trace' = <<Log("Creating heatmap..."), DensityHeatmap(data)>>
         ELSE IF fails
         THEN /\ call' = [op |-> "display", raised |-> TRUE]
              /\ trace' = <<Log("Creating heatmap..."), DensityHeatmap(data), Show,
                            DensityHeatmap(data), Show>>
         ELSE /\ call' = [op |-> "display", raised |-> FALSE]
              /\ trace' = <<Log("Creating heatmap..."), DensityHeatmap(data), Show,
                            Log("Heatmap displayed in a new browser window")>>
    /\ UNCHANGED <<json_data, systems, _all_systems, _selected_systems>>

\* Systems.display; the viewer may fail to open.
display ==
    /\ systems = "ready"
    /\ call = Idle
    /\ \E fails \in BOOLEAN :
         LET data == RenderedFrame(_all_systems, _selected_systems) IN
         IF HeatmapRaises(data)
         THEN /\ call' = [op |-> "display", raised |-> TRUE]
              /\ trace' = <<Log("Creating heatmap..."), DensityHeatmap(data)>>
         ELSE IF fails
         THEN /\ call' = [op |-> "display", raised |-> TRUE]
              /\ trace' = <<Log("Creating heatmap..."), DensityHeatmap(data), Show>>
         ELSE /\ call' = [op |-> "display", raised |-> FALSE]
              /\ trace' = <<Log("Creating heatmap..."), DensityHeatmap(data), Show,
                            Log("Heatmap displayed in a new browser window")>>
    /\ UNCHANGED <<json_data, systems, _all_systems, _selected_systems>>

\* Faulty variant of save: a saved heatmap resets the zoom.
save_zooms_out ==
    /\ systems = "ready"
    /\ call = Idle
    /\ \E filename \in Filenames :
         LET data == RenderedFrame(_all_systems, _selected_systems) IN
         /\ ~HeatmapRaises(data)
         /\ call' = [op |-> "save", filename |-> filename, raised |-> FALSE]
         /\ trace' = <<Log(<<"Saving heatmap to %s...", filename>>),
                       DensityHeatmap(data), WriteHtml(filename),
                       Log(<<"Heatmap saved to %s", filename>>)>>
    /\ _selected_systems' = _all_systems
    /\ UNCHANGED <<json_data, systems, _all_systems>>

\* Systems.save; writing the file may fail.
save ==
    /\ systems = "ready"
    /\ call = Idle
    /\ \E filename \in Filenames, fails \in BOOLEAN :
         LET data == RenderedFrame(_all_systems, _selected_systems) IN
         IF HeatmapRaises(data)
         THEN /\ call' = [op |-> "save", filename |-> filename, raised |-> TRUE]
              /\ trace' = <<Log(<<"Saving heatmap to %s...", filename>>),
                            DensityHeatmap(data)>>
         ELSE IF fails
         THEN /\ call' = [op |-> "save", filename |-> filename, raised |-> TRUE]
              /\ trace' = <<Log(<<"Saving heatmap to %s...", filename>>),
                            DensityHeatmap(data), WriteHtml(filename)>>
         ELSE /\ call' = [op |-> "save", filename |-> filename, raised |-> FALSE]
              /\ trace' = <<Log(<<"Saving heatmap to %s...", filename>>),
                            DensityHeatmap(data), WriteHtml(filename),
                            Log(<<"Heatmap saved to %s", filename>>)>>
    /\ UNCHANGED <<json_data, systems, _all_systems, _selected_systems>>

\* Systems.zoom_out
zoom_out ==
    /\ systems = "ready"
    /\ call = Idle
    /\ _selected_systems' = ZoomOutSelection(_all_systems, _selected_systems)
    /\ call' = [op |-> "zoom_out", raised |-> FALSE, before |-> _selected_systems]
    /\ trace' = <<Log("Zooming out..."), Assign("_selected_systems"), Log("Zoomed out")>>
    /\ UNCHANGED <<json_data, systems, _all_systems>>

\* Faulty variant of zoom_in: the window is applied to the catalog itself.
zoom_in_narrows_catalog ==
    /\ systems = "ready"
    /\ call = Idle
    /\ ~WindowQueryRaises(_all_systems)
    /\ \E coord_0 \in Corners, coord_1 \in Corners :
         /\ _all_systems' = WindowQuery(_all_systems, coord_0, coord_1)
         /\ _selected_systems' = WindowQuery(_all_systems, coord_0, coord_1)
         /\ call' = [op |-> "zoom_in", coord_0 |-> coord_0, coord_1 |-> coord_1,
                     raised |-> FALSE, before |-> _selected_systems]
         /\ trace' = <<Log(ZoomInMessage(coord_0, coord_1)),
                       Assign("_selected_systems"), Log("Zoom in complete")>>
    /\ UNCHANGED <<json_data, systems>>

\* Systems.zoom_in(coord_0, coord_1)
zoom_in_call(coord_0, coord_1) ==
    /\ systems = "ready"
    /\ call = Idle
    /\   IF WindowQueryRaises(_all_systems)
         THEN /\ call' = [op |-> "zoom_in", coord_0 |-> coord_0, coord_1 |-> coord_1,
                          raised |-> TRUE, before |-> _selected_systems]
              /\ trace' = <<Log(ZoomInMessage(coord_0, coord_1))>>
              /\ UNCHANGED _selected_systems
         ELSE /\ _selected_systems' =
                    ZoomInSelection(_all_systems, _selected_systems, coord_0, coord_1)
              /\ call' = [op |-> "zoom_in", coord_0 |-> coord_0, coord_1 |-> coord_1,
                          raised |-> FALSE, before |-> _selected_systems]
              /\ trace' = <<Log(ZoomInMessage(coord_0, coord_1)),
                            Assign("_selected_systems"), Log("Zoom in complete")>>
    /\ UNCHANGED <<json_data, systems, _all_systems>>

\* Systems.zoom_in on any two corners
zoom_in == \E coord_0 \in Corners, coord_1 \in Corners : zoom_in_call(coord_0, coord_1)

\* The call has ended and its caller goes on: the front end's loop is back
\* at its prompt, ready for the next command.
Return ==
    /\ call # Idle
    /\ call' = Idle
    /\ trace' = <<>>
    /\ UNCHANGED <<json_data, systems, _all_systems, _selected_systems>>

Next ==
    \/ Systems_init /\ UNCHANGED outside
    \/ Return /\ UNCHANGED outside
    \/ display /\ UNCHANGED outside
    \/ save /\ UNCHANGED outside
    \/ zoom_out /\ UNCHANGED outside
    \/ zoom_in /\ UNCHANGED outside

Spec == Init /\ [][Next]_vars

\* ------------------------------------------------------------ front ends
\* Longest parameter of a console command, in characters.
MaxParamLen == 3
\* Longest text of a coordinate entry of the GUI, in characters.
MaxEntryLen == 1

\* The methods of Systems write these.
core == <<json_data, systems, _all_systems, _selected_systems, call, trace>>

\* The characters a user types: a digit, the separator, a sign, a letter.
DecimalDigits == {"0", "1", "2", "3", "4", "5", "6", "7", "8", "9"}
Chars == {"1", ",", "-", "x"}
Texts(shortest, longest) == UNION { [1..n -> Chars] : n \in shortest..longest }

\* The documents a session is started on: a catalog of one charted neutron
\* star next to a star of another kind, a neutron star with no coordinates,
\* a system with no main star, no system at all, a single object in place of
\* the array, and a scalar.
Pulsar == Base @@ [mainStar |-> NeutronStar] @@ [coords |-> [x |-> 1, z |-> 1]]
Dwarf == Base @@ [mainStar |-> "White Dwarf"] @@ [coords |-> [x |-> 1, z |-> 1]]
Uncharted == Base @@ [mainStar |-> NeutronStar]
Unclassified == Base @@ [coords |-> [x |-> 1, z |-> 1]]
SessionDocuments ==
    { [type |-> "list", data |-> <<Pulsar, Dwarf>>],
      [type |-> "list", data |-> <<Uncharted>>],
      [type |-> "list", data |-> <<Unclassified>>],
      [type |-> "list", data |-> <<>>],
      [type |-> "dict", data |-> <<Pulsar>>],
      [type |-> "scalar", data |-> <<>>] }

\* str.split(sep): the pieces between the separators, empty pieces included.
RECURSIVE split(_, _)
split(s, sep) ==
    IF \A k \in DOMAIN s : s[k] # sep
    THEN <<s>>
    ELSE LET k == CHOOSE i \in DOMAIN s : s[i] = sep /\ \A j \in 1..(i - 1) : s[j] # sep
         IN  <<SubSeq(s, 1, k - 1)>> \o split(SubSeq(s, k + 1, Len(s)), sep)

DigitValue(c) ==
    CASE c = "0" -> 0 [] c = "1" -> 1 [] c = "2" -> 2 [] c = "3" -> 3 [] c = "4" -> 4
      [] c = "5" -> 5 [] c = "6" -> 6 [] c = "7" -> 7 [] c = "8" -> 8 [] c = "9" -> 9

RECURSIVE Decimal(_)
Decimal(digits) ==
    IF digits = <<>> THEN 0
    ELSE 10 * Decimal(SubSeq(digits, 1, Len(digits) - 1)) + DigitValue(digits[Len(digits)])

\* int(text): an optional sign and at least one decimal digit, or ValueError.
int(text) ==
    LET signed == text # <<>> /\ text[1] \in {"-", "+"}
        digits == IF signed THEN Tail(text) ELSE text
    IN  IF digits # <<>> /\ \A k \in DOMAIN digits : digits[k] \in DecimalDigits
        THEN [ok |-> TRUE,
              value |-> IF signed /\ text[1] = "-" THEN 0 - Decimal(digits) ELSE Decimal(digits)]
        ELSE [ok |-> FALSE]

\* ------------------------------------------------------------ the Console
Words == {"?", "help", "display", "zoom", "exit", "save"}
Params == Texts(1, MaxParamLen)
\* A command with a wrong number of parameters is rejected on their number.
FewParams == { <<"1", ",", "1">>, <<"x">> }
Commands ==
    {<<>>}
    \cup { <<w>> : w \in Words }
    \cup { <<w, p>> : w \in {"zoom", "display"}, p \in FewParams }
    \cup { <<"zoom", p, q>> : p \in Params, q \in Params }
    \cup { <<"zoom", p, q, r>> : p \in FewParams, q \in FewParams, r \in FewParams }

\* Console._parse_coordinates: the two corners, or None and what was logged.
_parse_coordinates(cmd_parameters) ==
    IF Len(cmd_parameters) # 2 THEN [ok |-> FALSE, log |-> <<>>]
    ELSE
    LET first == split(cmd_parameters[1], ",")
        second == split(cmd_parameters[2], ",")
    IN  IF Len(first) # 2
        THEN [ok |-> FALSE, log |-> <<"First coordinate in bad format: %s">>]
        ELSE IF Len(second) # 2
        THEN [ok |-> FALSE, log |-> <<"Second coordinate in bad format: %s">>]
        ELSE IF ~(int(first[1]).ok /\ int(first[2]).ok /\ int(second[1]).ok /\ int(second[2]).ok)
        THEN [ok |-> FALSE, log |-> <<"Parse error: %s">>]
        ELSE [ok |-> TRUE, log |-> <<>>,
              coord_0 |-> <<int(first[1]).value, int(first[2]).value>>,
              coord_1 |-> <<int(second[1]).value, int(second[2]).value>>]

ConsoleAt(pc, cmd_tokens, out) == [pc |-> pc, cmd_tokens |-> cmd_tokens, out |-> out]

\* request_loop calls init_fn, which builds the Systems object.
console_init ==
    /\ console.pc = "new"
    /\ Systems_init
    /\ console' = ConsoleAt("called", <<>>, <<>>)
    /\ UNCHANGED <<json_type, gui, memory, script>>

\* The call on Systems returns into request_loop, or its exception leaves
\* request_loop, which catches none.
console_return ==
    /\ console.pc = "called"
    /\ Return
    /\ console' = ConsoleAt(IF call.raised THEN "crashed" ELSE "prompt", <<>>, <<>>)
    /\ UNCHANGED <<json_type, gui, memory, script>>

\* One line is read at the prompt, lowered and split into tokens.
console_input ==
    /\ console.pc = "prompt"
    /\ \E cmd_tokens \in Commands : console' = ConsoleAt("dispatch", cmd_tokens, <<>>)
    /\ UNCHANGED <<core, json_type, gui, memory, script>>

\* Ctrl+C or Ctrl+D at the prompt.
console_interrupt ==
    /\ console.pc = "prompt"
    /\ console' = ConsoleAt("exited", <<>>, <<"Exiting...">>)
    /\ UNCHANGED <<core, json_type, gui, memory, script>>

console_help(log) ==
    /\ console' = ConsoleAt("prompt", <<>>, log \o <<"help">>)
    /\ UNCHANGED core

\* Faulty variant of console_zoom: a zoom that cannot be parsed zooms out.
console_zoom_fallback(cmd_tokens) ==
    LET coordinates == _parse_coordinates(Tail(cmd_tokens)) IN
    IF Len(cmd_tokens) = 1 \/ ~coordinates.ok
    THEN zoom_out /\ console' = ConsoleAt("called", <<>>, <<>>)
    ELSE zoom_in_call(coordinates.coord_0, coordinates.coord_1)
         /\ console' = ConsoleAt("called", <<>>, <<>>)

\* The zoom command of request_loop.
console_zoom(cmd_tokens) ==
    IF Len(cmd_tokens) = 1
    THEN zoom_out /\ console' = ConsoleAt("called", <<>>, <<>>)
    ELSE IF Len(cmd_tokens) = 3
    THEN LET coordinates == _parse_coordinates(Tail(cmd_tokens)) IN
         IF ~coordinates.ok
         THEN console_help(coordinates.log)
         ELSE zoom_in_call(coordinates.coord_0, coordinates.coord_1)
              /\ console' = ConsoleAt("called", <<>>, <<>>)
    ELSE console_help(<<>>)

\* The body of the loop of request_loop on the tokens read.
console_dispatch ==
    /\ console.pc = "dispatch"
    /\ LET cmd_tokens == console.cmd_tokens IN
       IF Len(cmd_tokens) = 0 THEN console_help(<<>>)
       ELSE LET cmd == cmd_tokens[1] IN
            IF cmd \in {"?", "h", "help"} THEN console_help(<<>>)
            ELSE IF cmd = "display"
            THEN display /\ console' = ConsoleAt("called", <<>>, <<>>)
            ELSE IF cmd = "zoom" THEN console_zoom(cmd_tokens)
            ELSE IF cmd = "exit"
            THEN console' = ConsoleAt("exited", <<>>, <<"Exiting...">>) /\ UNCHANGED core
            ELSE console_help(<<>>)
    /\ UNCHANGED <<json_type, gui, memory, script>>

\* ---------------------------------------------------------------- the GUI
EntryTexts == Texts(0, MaxEntryLen)

Ended(worker) == worker.pc \in {"done", "died"}

\* GUI.log: the message goes to the status bar.  After a call on Systems the
\* bar shows the last line that call logged.
LastLogged(events, _status_text) ==
    LET logs == { k \in DOMAIN events : events[k][1] = "log" } IN
    IF logs = {} THEN _status_text
    ELSE events[CHOOSE k \in logs : \A l \in logs : l <= k][2]

\* Faulty variant of _buttons_change_state: Zoom Out is not among the buttons.
_buttons_change_long_ops(buttons, state) ==
    [b \in DOMAIN buttons |-> IF b = "Zoom Out" THEN buttons[b] ELSE state]

\* Every button of the main frame gets the state.
_buttons_change_state(buttons, state) == [b \in DOMAIN buttons |-> state]

\* Faulty variant of _long_op_pre: the buttons stay enabled.
_long_op_pre_enabled(g) == [g EXCEPT !.progressbar = "running"]

_long_op_pre(g) ==
    [g EXCEPT !.buttons = _buttons_change_state(g.buttons, "disabled"),
              !.progressbar = "running"]

\* _handle_long_op(fn) on the fields g of the GUI: the fields afterwards.
_handle_long_op(g, fn) ==
    LET pre == _long_op_pre(g) IN
    IF pre._longop_thread # "None"
    THEN [pre EXCEPT !.raised = "BUG: long op thread should be None"]
    ELSE [pre EXCEPT !._longop_thread = "Thread",
                     !.worker = [fn |-> fn, pc |-> "start", entries |-> <<>>]]

\* GUI() and _setup_window.
NewGUI == [NoGUI EXCEPT !.pc = "new", !._status_text = "Main window ready"]

\* request_loop up to the call of mainloop: initialization is started as a
\* long operation.
gui_request_loop ==
    /\ gui.pc = "new"
    /\ gui' = [_handle_long_op(gui, "systems_init") EXCEPT !.pc = "starting"]
    /\ UNCHANGED <<core, json_type, console, memory, script>>

\* The UI thread enters mainloop.
gui_mainloop ==
    /\ gui.pc = "starting"
    /\ gui' = [gui EXCEPT !.pc = "mainloop"]
    /\ UNCHANGED <<core, json_type, console, memory, script>>

\* A click on an enabled long-operation button runs _handle_long_op.
gui_click_long_op ==
    /\ gui.pc = "mainloop"
    /\ \E b \in {"Display", "Zoom In"} :
         /\ gui.buttons[b] = "normal"
         /\ gui' = _handle_long_op(gui, IF b = "Display" THEN "_handle_display"
                                                          ELSE "_handle_zoom_in")
    /\ UNCHANGED <<core, json_type, console, memory, script>>

\* A click on the enabled Zoom Out button runs _handle_zoom_out on the UI
\* thread.
gui_click_zoom_out ==
    /\ gui.pc = "mainloop"
    /\ gui.buttons["Zoom Out"] = "normal"
    /\ IF gui._systems = "None"
       THEN /\ gui' = [gui EXCEPT !.raised = "AttributeError"]
            /\ UNCHANGED core
       ELSE /\ zoom_out
            /\ gui' = [gui EXCEPT !.pc = "_handle_zoom_out",
                                  !._status_text = LastLogged(trace', @)]
    /\ UNCHANGED <<json_type, console, memory, script>>

\* zoom_out returns to _handle_zoom_out, which returns to mainloop.
gui_zoom_out_return ==
    /\ gui.pc = "_handle_zoom_out"
    /\ Return
    /\ gui' = [gui EXCEPT !.pc = "mainloop"]
    /\ UNCHANGED <<json_type, console, memory, script>>

\* mainloop delivers <<LongOpComplete>>: _long_op_post up to the join.
_long_op_post ==
    /\ gui.pc = "mainloop"
    /\ gui.events > 0
    /\ gui' = IF gui._longop_thread = "None"
              THEN [gui EXCEPT !.events = @ - 1,
                               !.raised = "BUG: long op thread should not be None"]
              ELSE [gui EXCEPT !.events = @ - 1, !.pc = "_long_op_post"]
    /\ UNCHANGED <<core, json_type, console, memory, script>>

\* The join returns once the worker has ended; the rest of _long_op_post.
_long_op_post_joined ==
    /\ gui.pc = "_long_op_post"
    /\ Ended(gui.worker)
    /\ gui' = [gui EXCEPT !.pc = "mainloop", !._longop_thread = "None",
                          !.worker = NoWorker,
                          !.buttons = _buttons_change_state(@, "normal"),
                          !.progressbar = "hidden"]
    /\ UNCHANGED <<core, json_type, console, memory, script>>

\* The window is closed: mainloop returns and pending events are dropped.
gui_close ==
    /\ gui.pc = "mainloop"
    /\ gui' = [gui EXCEPT !.pc = "exiting", !.events = 0, !._status_text = "Exiting..."]
    /\ UNCHANGED <<core, json_type, console, memory, script>>

\* The end of request_loop: the worker, if any, is joined.
gui_exit ==
    /\ gui.pc = "exiting"
    /\ gui._longop_thread = "None" \/ Ended(gui.worker)
    /\ gui' = [gui EXCEPT !.pc = "exited", !._longop_thread = "None",
                          !.worker = NoWorker, !._status_text = "Exited"]
    /\ UNCHANGED <<core, json_type, console, memory, script>>

\* The worker thread: _worker calls fn, then generates <<LongOpComplete>>.
WorkerAt(fn, pc) == gui.worker.fn = fn /\ gui.worker.pc = pc

\* systems_init calls init_fn, which builds the Systems object.
worker_systems_init ==
    /\ WorkerAt("systems_init", "start")
    /\ Systems_init
    /\ gui' = [gui EXCEPT !.worker.pc = "called", !._status_text = LastLogged(trace', @)]
    /\ UNCHANGED <<json_type, console, memory, script>>

\* Faulty variant of worker_systems_init_return: a failed construction is
\* printed and the session goes on.
worker_systems_init_survives ==
    /\ WorkerAt("systems_init", "called")
    /\ Return
    /\ gui' = IF call.raised
              THEN [gui EXCEPT !.worker.pc = "returned"]
              ELSE [gui EXCEPT !.worker.pc = "returned", !._systems = "Systems"]
    /\ UNCHANGED <<json_type, console, memory, script>>

\* init_fn returns and _systems is assigned, or its exception is printed and
\* os._exit ends the process.
worker_systems_init_return ==
    /\ WorkerAt("systems_init", "called")
    /\ Return
    /\ gui' = IF call.raised
              THEN [gui EXCEPT !.pc = "killed", !.worker.pc = "killed"]
              ELSE [gui EXCEPT !.worker.pc = "returned", !._systems = "Systems"]
    /\ UNCHANGED <<json_type, console, memory, script>>

\* _handle_display on the worker thread.
worker_display ==
    /\ WorkerAt("_handle_display", "start")
    /\ IF gui._systems = "None"
       THEN /\ gui' = [gui EXCEPT !.worker.pc = "died"]
            /\ UNCHANGED core
       ELSE /\ display
            /\ gui' = [gui EXCEPT !.worker.pc = "called",
                                  !._status_text = LastLogged(trace', @)]
    /\ UNCHANGED <<json_type, console, memory, script>>

\* _handle_zoom_in reads the entries of the first corner.
worker_zoom_in_coord0 ==
    /\ WorkerAt("_handle_zoom_in", "start")
    /\ \E x0 \in EntryTexts, z0 \in EntryTexts :
         gui' = IF int(x0).ok /\ int(z0).ok
                THEN [gui EXCEPT !.worker.pc = "coord0", !.worker.entries = <<x0, z0>>]
                ELSE [gui EXCEPT !.worker.pc = "returned", !.worker.entries = <<x0, z0>>,
                                 !._status_text = "Error parsing first coordinate: %s"]
    /\ UNCHANGED <<core, json_type, console, memory, script>>

\* _handle_zoom_in reads the entries of the second corner and calls zoom_in.
worker_zoom_in_coord1 ==
    /\ WorkerAt("_handle_zoom_in", "coord0")
    /\ \E x1 \in EntryTexts, z1 \in EntryTexts :
         LET entries == gui.worker.entries \o <<x1, z1>>
             coord0 == <<int(entries[1]).value, int(entries[2]).value>>
         IN  IF ~(int(x1).ok /\ int(z1).ok)
             THEN /\ gui' = [gui EXCEPT !.worker.pc = "returned", !.worker.entries = entries,
                                        !._status_text = "Error parsing second coordinate: %s"]
                  /\ UNCHANGED core
             ELSE IF gui._systems = "None"
             THEN /\ gui' = [gui EXCEPT !.worker.pc = "died", !.worker.entries = entries]
                  /\ UNCHANGED core
             ELSE /\ zoom_in_call(<<int(entries[1]).value, int(entries[2]).value>>,
                                  <<int(x1).value, int(z1).value>>)
                  /\ gui' = [gui EXCEPT !.worker.pc = "called", !.worker.entries = entries,
                                        !._status_text = LastLogged(trace', @)]
    /\ UNCHANGED <<json_type, console, memory, script>>

\* The call on Systems returns to the handler and to _worker, or its
\* exception ends the thread: _worker catches none.
worker_return ==
    /\ gui.worker.fn \in {"_handle_display", "_handle_zoom_in"}
    /\ gui.worker.pc = "called"
    /\ Return
    /\ gui' = [gui EXCEPT !.worker.pc = IF call.raised THEN "died" ELSE "returned"]
    /\ UNCHANGED <<json_type, console, memory, script>>

\* event_generate("<<LongOpComplete>>") from the worker thread, its last
\* statement.  Outside mainloop the call raises and no event is queued.
worker_event_generate ==
    /\ gui.worker.pc = "returned"
    /\ gui' = IF gui.pc \in {"mainloop", "_handle_zoom_out", "_long_op_post"}
              THEN [gui EXCEPT !.worker.pc = "done", !.events = @ + 1]
              ELSE [gui EXCEPT !.worker.pc = "died"]
    /\ UNCHANGED <<core, json_type, console, memory, script>>

\* ------------------------------------------------------------- a session
\* One front end is started on one document.
SessionInit ==
    /\ \E document \in SessionDocuments :
         /\ json_type = document.type
         /\ json_data = document.data
    /\ systems = "unconstructed"
    /\ _all_systems = EmptyFrame
    /\ _selected_systems = EmptyFrame
    /\ call = Idle
    /\ trace = <<>>
    /\ \/ console = ConsoleAt("new", <<>>, <<>>) /\ gui = NoGUI
       \/ console = NoConsole /\ gui = NewGUI
    /\ memory = NoMemory
    /\ script = NoScript

SessionNext ==
    \/ console_init
    \/ console_return
    \/ console_input
    \/ console_interrupt
    \/ console_dispatch
    \/ gui_request_loop
    \/ gui_mainloop
    \/ gui_click_long_op
    \/ gui_click_zoom_out
    \/ gui_zoom_out_return
    \/ _long_op_post
    \/ _long_op_post_joined
    \/ gui_close
    \/ gui_exit
    \/ worker_systems_init
    \/ worker_systems_init_return
    \/ worker_display
    \/ worker_zoom_in_coord0
    \/ worker_zoom_in_coord1
    \/ worker_return
    \/ worker_event_generate

SessionSpec == SessionInit /\ [][SessionNext]_vars

\* ------------------------------------------------------- frame identity
\* The frames that an attribute or a renderer at work refers to.
Live(mem) ==
    {mem.all, mem.selected}
    \cup (IF mem.render.pc = "plotting" THEN {mem.render.data} ELSE {})

\* A frame nothing refers to is gone.
Collect(mem) ==
    [mem EXCEPT !.heap = [id \in ObjectIds |->
                            IF id \in Live(mem) THEN mem.heap[id] ELSE EmptyFrame]]

\* Faulty variant of AssignQueried: the selected frame is narrowed in place.
AssignInPlace(mem, frame) == [mem EXCEPT !.heap[mem.selected] = frame]

\* self._selected_systems = <chain of DataFrame.query>: every query returns
\* a new frame, and the attribute is bound to the last one.
AssignQueried(mem, frame) ==
    LET id == CHOOSE i \in ObjectIds \ Live(mem) :
                  \A j \in ObjectIds \ Live(mem) : i <= j
    IN  Collect([mem EXCEPT !.heap[id] = frame, !.selected = id])

\* Systems.__init__: the filtered frame is bound to both attributes.
mem_init ==
    /\ Systems_init
    /\ memory' = IF systems' = "ready"
                 THEN [memory EXCEPT !.heap[1] = _all_systems', !.all = 1, !.selected = 1]
                 ELSE memory
    /\ UNCHANGED <<json_type, console, gui, script>>

\* Systems.zoom_out binds the selection to the catalog's frame.
mem_zoom_out ==
    /\ zoom_out
    /\ memory' = Collect([memory EXCEPT !.selected = memory.all])
    /\ UNCHANGED <<json_type, console, gui, script>>

\* Systems.zoom_in binds the selection to the frame its queries return.
mem_zoom_in ==
    /\ \E coord_0 \in Corners, coord_1 \in Corners : zoom_in_call(coord_0, coord_1)
    /\ memory' = IF call'.raised THEN memory
                 ELSE AssignQueried(memory, _selected_systems')
    /\ UNCHANGED <<json_type, console, gui, script>>

mem_return == Return /\ UNCHANGED outside

\* display or save reads the attribute and hands the frame to
\* density_heatmap, on a thread of its own.
render_begin ==
    /\ systems = "ready"
    /\ memory.render.pc = "idle"
    /\ \E op \in {"display", "save"} :
         memory' = [memory EXCEPT !.render =
                       [pc |-> "plotting", op |-> op, data |-> memory.selected,
                        handed |-> memory.heap[memory.selected]]]
    /\ UNCHANGED <<core, json_type, console, gui, script>>

\* The renderer has read its frame and the figure is shown or written.
render_end ==
    /\ memory.render.pc = "plotting"
    /\ call = Idle
    /\ LET data == memory.heap[memory.render.data]
           op == memory.render.op
           started == IF op = "display" THEN Log("Creating heatmap...")
                      ELSE Log(<<"Saving heatmap to %s...", "heatmap.html">>)
           output == IF op = "display" THEN Show ELSE WriteHtml("heatmap.html")
           finished == IF op = "display"
                       THEN Log("Heatmap displayed in a new browser window")
                       ELSE Log(<<"Heatmap saved to %s", "heatmap.html">>)
       IN  IF HeatmapRaises(data)
           THEN /\ call' = [op |-> op, raised |-> TRUE, handed |-> memory.render.handed]
                /\ trace' = <<started, DensityHeatmap(data)>>
           ELSE /\ call' = [op |-> op, raised |-> FALSE, handed |-> memory.render.handed]
                /\ trace' = <<started, DensityHeatmap(data), output, finished>>
    /\ memory' = Collect([memory EXCEPT !.render = NotRendering])
    /\ UNCHANGED <<json_data, systems, _all_systems, _selected_systems,
                   json_type, console, gui, script>>

RenderInit ==
    /\ \E document \in SessionDocuments :
         /\ json_type = document.type
         /\ json_data = document.data
    /\ systems = "unconstructed"
    /\ _all_systems = EmptyFrame
    /\ _selected_systems = EmptyFrame
    /\ call = Idle
    /\ trace = <<>>
    /\ console = NoConsole
    /\ gui = NoGUI
    /\ memory = NoMemory
    /\ script = NoScript

RenderNext ==
    \/ mem_init
    \/ mem_zoom_out
    \/ mem_zoom_in
    \/ mem_return
    \/ render_begin
    \/ render_end

RenderSpec == RenderInit /\ [][RenderNext]_vars

\* -------------------------------------------------- the standalone script
\* neutron-heatmap.py holds the catalog and the selection in two locals of
\* its own and reads whole lines; the Console splits the line into tokens.
\* Both are given the same lines, as characters.
Spell(word) ==
    CASE word = "zoom"    -> <<"z", "o", "o", "m">>
      [] word = "display" -> <<"d", "i", "s", "p", "l", "a", "y">>
      [] word = "exit"    -> <<"e", "x", "i", "t">>
      [] word = "help"    -> <<"h", "e", "l", "p">>
      [] word = "save"    -> <<"s", "a", "v", "e">>
      [] word = "h"       -> <<"h">>
      [] word = "?"       -> <<"?">>

Blank(n) == [k \in 1..n |-> " "]

RECURSIVE Join(_, _)
Join(pieces, gap) ==
    IF pieces = <<>> THEN <<>>
    ELSE IF Len(pieces) = 1 THEN pieces[1]
    ELSE pieces[1] \o gap \o Join(Tail(pieces), gap)

\* A command as the pieces of its line: the word spelled out, then the
\* parameters.
Pieces(cmd_tokens) ==
    IF cmd_tokens = <<>> THEN <<>> ELSE <<Spell(cmd_tokens[1])>> \o Tail(cmd_tokens)

\* The lines typed: every command with single blanks between its pieces; a
\* few commands with a blank before, a blank after or two blanks between;
\* and the same few with a capital first letter.
PlainLines == { Join(Pieces(c), Blank(1)) : c \in Commands }
FewCommands ==
    { <<"zoom">>, <<"display">>, <<"exit">>,
      <<"zoom", <<"1", ",", "1">>, <<"1", ",", "1">> >>,
      <<"zoom", <<"x">>, <<"1", ",", "1">> >> }
SpacedLines ==
    { Blank(lead) \o Join(Pieces(c), Blank(gap)) \o Blank(trail) :
        c \in FewCommands, lead \in 0..1, gap \in 1..2, trail \in 0..1 }
CapitalLines == { <<"Z">> \o Tail(Join(Pieces(c), Blank(1))) : c \in {<<"zoom">>} \cup
                    { d \in FewCommands : Len(d) = 3 } }
Lines == PlainLines \cup SpacedLines \cup CapitalLines

\* str.lower() on the characters typed.
lower(line) == [k \in DOMAIN line |-> IF line[k] = "Z" THEN "z" ELSE line[k]]

\* str.split(): the pieces between runs of blanks, none of them empty.
RECURSIVE split_blanks(_)
split_blanks(s) ==
    IF s = <<>> THEN <<>>
    ELSE IF s[1] = " " THEN split_blanks(Tail(s))
    ELSE LET blanks == { k \in DOMAIN s : s[k] = " " }
             end == IF blanks = {} THEN Len(s) + 1
                    ELSE CHOOSE k \in blanks : \A l \in blanks : k <= l
         IN  <<SubSeq(s, 1, end - 1)>> \o split_blanks(SubSeq(s, end, Len(s)))

\* The first token as the command word the Console compares it with.
WordOf(token) ==
    IF \E w \in Words \cup {"h"} : Spell(w) = token
    THEN CHOOSE w \in Words \cup {"h"} : Spell(w) = token
    ELSE "unrecognized"

\* input("> ").lower().split() of Console.request_loop.
console_tokens(line) ==
    LET tokens == split_blanks(lower(line)) IN
    IF tokens = <<>> THEN <<>> ELSE <<WordOf(tokens[1])>> \o Tail(tokens)

\* s[a:b] of Python.
Slice(s, a, b) == SubSeq(s, a + 1, IF b < Len(s) THEN b ELSE Len(s))

\* The characters of the class [-+0-9].
SignsAndDigits == DecimalDigits \cup {"-", "+"}

\* parse_coordinates of the script: the line must match
\* "zoom ([-+0-9]*),([-+0-9]*) ([-+0-9]*),([-+0-9]*)" as a whole, and the
\* four groups must read as integers.
parse_coordinates(cmd) ==
    IF Len(cmd) <= 5 \/ Slice(cmd, 0, 5) # Spell("zoom") \o <<" ">>
    THEN [ok |-> FALSE]
    ELSE
    LET rest == Slice(cmd, 5, Len(cmd))
        Matches(i, j, k) ==
            /\ i < j /\ j < k
            /\ rest[i] = "," /\ rest[j] = " " /\ rest[k] = ","
            /\ \A l \in DOMAIN rest \ {i, j, k} : rest[l] \in SignsAndDigits
    IN  IF ~\E i, j, k \in DOMAIN rest : Matches(i, j, k)
        THEN [ok |-> FALSE]
        ELSE LET m == CHOOSE m \in (DOMAIN rest) \X (DOMAIN rest) \X (DOMAIN rest) :
                          Matches(m[1], m[2], m[3])
                 x_0 == int(SubSeq(rest, 1, m[1] - 1))
                 z_0 == int(SubSeq(rest, m[1] + 1, m[2] - 1))
                 x_1 == int(SubSeq(rest, m[2] + 1, m[3] - 1))
                 z_1 == int(SubSeq(rest, m[3] + 1, Len(rest)))
             IN  IF ~(x_0.ok /\ z_0.ok /\ x_1.ok /\ z_1.ok)
                 THEN [ok |-> FALSE]
                 ELSE [ok |-> TRUE, coord_0 |-> <<x_0.value, z_0.value>>,
                       coord_1 |-> <<x_1.value, z_1.value>>]

\* A line with nothing but single blanks between its pieces.
IsPlain(line) ==
    \A k \in DOMAIN line :
        line[k] = " " => (k > 1 /\ k < Len(line) /\ line[k + 1] # " ")

ScriptAt(pc) == [script EXCEPT !.pc = pc, !.cmd = <<>>]

\* main of the script up to the first prompt of request_loop.
script_main ==
    /\ script.pc = "new"
    /\ LET normalized_data == json_normalize(json_data) IN
       IF NormalizeRaises(json_type) \/ QueryRaises(normalized_data, "mainStar")
       THEN script' = ScriptAt("crashed")
       ELSE script' = [script EXCEPT !.pc = "prompt",
                                     !.all_systems = StarFilter(normalized_data),
                                     !.selected_systems = StarFilter(normalized_data)]
    /\ UNCHANGED <<core, json_type, console, gui, memory>>

\* The same line is typed at both prompts.
revision_input ==
    /\ console.pc = "prompt"
    /\ script.pc = "prompt"
    /\ \E line \in Lines :
         /\ console' = ConsoleAt("dispatch", console_tokens(line), <<>>)
         /\ script' = [script EXCEPT !.pc = "dispatch", !.cmd = lower(line),
                                     !.plain = @ /\ IsPlain(line)]
    /\ UNCHANGED <<core, json_type, gui, memory>>

\* The body of the loop of the script's request_loop, once the Console has
\* dealt with the line.
script_dispatch ==
    /\ script.pc = "dispatch"
    /\ console.pc \in {"prompt", "crashed", "exited"}
    /\ LET cmd == script.cmd IN
       IF cmd \in {Spell("?"), Spell("h"), Spell("help")}
       THEN script' = ScriptAt("prompt")
       ELSE IF cmd = Spell("display")
       THEN \E fails \in BOOLEAN :
              script' = ScriptAt(IF HeatmapRaises(script.selected_systems) \/ fails
                                 THEN "crashed" ELSE "prompt")
       ELSE IF cmd = Spell("zoom")
       THEN script' = [ScriptAt("prompt") EXCEPT !.selected_systems = script.all_systems]
       ELSE IF Slice(cmd, 0, 4) = Spell("zoom")
       THEN LET coordinates == parse_coordinates(cmd) IN
            IF ~coordinates.ok
            THEN script' = ScriptAt("prompt")
            ELSE IF WindowQueryRaises(script.all_systems)
            THEN script' = ScriptAt("crashed")
            ELSE script' = [ScriptAt("prompt") EXCEPT !.selected_systems =
                              WindowQuery(script.all_systems,
                                          coordinates.coord_0, coordinates.coord_1)]
       ELSE IF cmd = Spell("exit")
       THEN script' = ScriptAt("exited")
       ELSE script' = ScriptAt("prompt")
    /\ UNCHANGED <<core, json_type, console, gui, memory>>

\* The script and the Console are started on the same document.
RevisionInit ==
    /\ \E document \in SessionDocuments :
         /\ json_type = document.type
         /\ json_data = document.data
    /\ systems = "unconstructed"
    /\ _all_systems = EmptyFrame
    /\ _selected_systems = EmptyFrame
    /\ call = Idle
    /\ trace = <<>>
    /\ console = ConsoleAt("new", <<>>, <<>>)
    /\ gui = NoGUI
    /\ memory = NoMemory
    /\ script = [NoScript EXCEPT !.pc = "new"]

RevisionNext ==
    \/ console_init
    \/ console_return
    \/ console_dispatch
    \/ script_main
    \/ revision_input
    \/ script_dispatch

RevisionSpec == RevisionInit /\ [][RevisionNext]_vars

\* ------------------------------------------------------------- properties
\* Reference notions, stated on rows and sets rather than on queries.
RowSet(df) == { df.rows[k] : k \in DOMAIN df.rows }
Lower(a, b) == CHOOSE m \in {a, b} : \A y \in {a, b} : m <= y
Upper(a, b) == CHOOSE m \in {a, b} : \A y \in {a, b} : m >= y
HasCoords(r) == "coords.x" \in DOMAIN r /\ "coords.z" \in DOMAIN r
InsideX(r, c0, c1) == Lower(c0[1], c1[1]) < r["coords.x"] /\ r["coords.x"] < Upper(c0[1], c1[1])
InsideZ(r, c0, c1) == Lower(c0[2], c1[2]) < r["coords.z"] /\ r["coords.z"] < Upper(c0[2], c1[2])
StrictlyInside(r, c0, c1) == HasCoords(r) /\ InsideX(r, c0, c1) /\ InsideZ(r, c0, c1)
OnEdge(r, c0, c1) ==
    /\ HasCoords(r)
    /\ \/ r["coords.x"] \in {c0[1], c1[1]}
       \/ r["coords.z"] \in {c0[2], c1[2]}
ZoomedIn == call.op = "zoom_in" /\ ~call.raised
NoRows(df) == df.rows = <<>>

\* C1: when zoom_in(coord_0, coord_1) returns, the selection holds exactly
\* the catalog rows with min(x0,x1) < coords.x < max(x0,x1) and
\* min(z0,z1) < coords.z < max(z0,z1), each once; no selected row lies on an
\* edge of the window.
C1_ZoomInSelectsStrictWindow ==
    ZoomedIn =>
        /\ RowSet(_selected_systems) =
             { r \in RowSet(_all_systems) : StrictlyInside(r, call.coord_0, call.coord_1) }
        /\ Len(_selected_systems.rows) = Cardinality(RowSet(_selected_systems))
        /\ \A r \in RowSet(_selected_systems) : ~OnEdge(r, call.coord_0, call.coord_1)

\* A zoom_in that selected one system and left out another that lies on an
\* x edge of the window while its z is inside.
C1_Witness ==
    /\ ZoomedIn
    /\ ~NoRows(_selected_systems)
    /\ \E r \in RowSet(_all_systems) :
         /\ HasCoords(r)
         /\ r["coords.x"] \in {call.coord_0[1], call.coord_1[1]}
         /\ InsideZ(r, call.coord_0, call.coord_1)
         /\ r \notin RowSet(_selected_systems)

\* C2: zooming is not cumulative: whatever the selection was before, the
\* selection after zoom_in(coord_0, coord_1) is the one the same call yields
\* on the freshly constructed object, where the selection is the catalog.
C2_ZoomInNotCumulative ==
    call.op = "zoom_in" =>
        _selected_systems =
            IF call.raised THEN _all_systems
            ELSE ZoomInSelection(_all_systems, _all_systems, call.coord_0, call.coord_1)

\* A zoom_in made on a narrowed selection that selects a system the previous
\* window had left out.
C2_Witness ==
    /\ ZoomedIn
    /\ call.before # _all_systems
    /\ \E r \in RowSet(_selected_systems) : r \notin RowSet(call.before)

\* C3: zoom_out can be called in every state of the constructed object, does
\* not raise, and leaves the selection equal to the catalog.
C3_ZoomOutSelectsAll ==
    /\ (systems = "ready" /\ call = Idle) => ENABLED zoom_out
    /\ call.op = "zoom_out" => (~call.raised /\ _selected_systems = _all_systems)

\* A zoom_out made while an empty window was selected, on a catalog that
\* holds systems.
C3_Witness ==
    /\ call.op = "zoom_out"
    /\ NoRows(call.before)
    /\ ~NoRows(_selected_systems)

\* The objects of the document that the catalog must hold: those whose
\* main-star field is there and is exactly "Neutron Star".
NeutronStarPositions ==
    { i \in DOMAIN json_data :
        "mainStar" \in DOMAIN json_data[i] /\ json_data[i].mainStar = NeutronStar }

\* C4: the constructed catalog holds exactly the objects of the document
\* whose main-star field equals "Neutron Star" (case-sensitively), each once,
\* in document order, with the values the object has.
C4_CatalogIsExactFilter ==
    systems = "ready" =>
        LET rows == _all_systems.rows IN
        /\ { rows[k].index + 1 : k \in DOMAIN rows } = NeutronStarPositions
        /\ \A k, l \in DOMAIN rows : k < l => rows[k].index < rows[l].index
        /\ \A k \in DOMAIN rows :
             LET obj == json_data[rows[k].index + 1] IN
             /\ DOMAIN rows[k] = {"index"} \cup FlatKeys(obj)
             /\ \A key \in DOMAIN obj \ {"coords"} : rows[k][key] = obj[key]
             /\ "coords" \in DOMAIN obj =>
                  /\ rows[k]["coords.x"] = obj.coords.x
                  /\ rows[k]["coords.z"] = obj.coords.z

\* A catalog built from a document of two objects, the first a neutron star
\* spelled in lower case (dropped), the second one spelled exactly (kept).
C4_Witness ==
    /\ systems = "ready"
    /\ Len(json_data) = 2
    /\ "mainStar" \in DOMAIN json_data[1]
    /\ json_data[1].mainStar = "neutron star"
    /\ Len(_all_systems.rows) = 1
    /\ _all_systems.rows[1].index = 1

\* C5: once constructed, the catalog never changes.
C5_CatalogImmutable ==
    [][systems = "ready" => _all_systems' = _all_systems]_vars

\* A zoom_in has narrowed the selection below a catalog of two systems.
C5_Witness ==
    /\ ZoomedIn
    /\ Len(_all_systems.rows) = 2
    /\ Len(_selected_systems.rows) = 1

\* C6: the order of the corners does not matter: the selection after
\* zoom_in(c0, c1) is the one zoom_in yields with the corners swapped, and
\* with the corners swapped on one axis only.
C6_CornerOrderIrrelevant ==
    ZoomedIn =>
        LET c0 == call.coord_0
            c1 == call.coord_1
            Sel(a, b) == ZoomInSelection(_all_systems, call.before, a, b)
        IN /\ _selected_systems = Sel(c1, c0)
           /\ _selected_systems = Sel(<<c0[1], c1[2]>>, <<c1[1], c0[2]>>)
           /\ _selected_systems = Sel(<<c1[1], c0[2]>>, <<c0[1], c1[2]>>)

\* A zoom_in whose first corner is the upper one on x and the lower one on
\* z, and which selected a system.
C6_Witness ==
    /\ ZoomedIn
    /\ call.coord_0[1] > call.coord_1[1]
    /\ call.coord_0[2] < call.coord_1[2]
    /\ ~NoRows(_selected_systems)

\* C7: zoom_in with coord_0 = coord_1 completes normally and leaves an empty
\* selection, whatever the catalog.
C7_DegenerateWindowEmpty ==
    (call.op = "zoom_in" /\ call.coord_0 = call.coord_1) =>
        (~call.raised /\ NoRows(_selected_systems))

\* C8: right after construction the selection is the whole catalog.
C8_InitiallyAll ==
    (call.op = "__init__" /\ ~call.raised) => _selected_systems = _all_systems

\* A construction that has just ended with a catalog of two systems.
C8_Witness ==
    /\ call.op = "__init__"
    /\ ~call.raised
    /\ Len(_all_systems.rows) = 2

\* C9: zoom_out is idempotent: after a zoom_out, the selection that a
\* second zoom_out would assign is the selection already there.
C9_ZoomOutIdempotent ==
    call.op = "zoom_out" =>
        ZoomOutSelection(_all_systems, _selected_systems) = _selected_systems

\* A zoom_out made when the selection already was the whole, non-empty
\* catalog, as a second zoom_out in a row is.
C9_Witness ==
    /\ call.op = "zoom_out"
    /\ call.before = _all_systems
    /\ ~NoRows(_all_systems)

\* C10: objects that lack the main-star field never make construction fail:
\* for every non-empty document construction completes, and no such object
\* is in the catalog.
C10_MissingFieldTolerated ==
    (call.op = "__init__" /\ json_type = "list" /\ json_data # <<>>) =>
        /\ ~call.raised
        /\ systems = "ready"
        /\ \A r \in RowSet(_all_systems) : "mainStar" \in DOMAIN r

\* The calls that hand the selection to the renderer.
Rendering == call.op \in {"display", "save"}
EventsOfKind(kind) == { k \in DOMAIN trace : trace[k][1] = kind }

\* C13: a display or save that the renderer makes fail ends at the failing
\* renderer step, which is the last thing it did: it has built the heatmap
\* once and not again, has logged the start line and no completion line,
\* and has changed neither selection nor catalog.
C13_RenderFailurePropagates ==
    [][ (call = Idle /\ call'.op \in {"display", "save"} /\ call'.raised)
        => /\ trace'[Len(trace')][1] \in {"density_heatmap", "show", "write_html"}
           /\ Cardinality({ k \in DOMAIN trace' : trace'[k][1] = "density_heatmap" }) = 1
           /\ Cardinality({ k \in DOMAIN trace' :
                              trace'[k][1] \in {"show", "write_html"} }) <= 1
           /\ trace'[1][1] = "log"
           /\ \A k \in DOMAIN trace' : k > 1 => trace'[k][1] # "log"
           /\ _selected_systems' = _selected_systems
           /\ _all_systems' = _all_systems ]_vars

\* A display whose viewer failed after the heatmap of a non-empty selection
\* was built.
C13_Witness ==
    /\ call.op = "display"
    /\ call.raised
    /\ EventsOfKind("show") # {}
    /\ ~NoRows(_selected_systems)

\* C14: display and save are read-only: whether they return or raise, the
\* selection and the catalog are what they were before the call.
C14_RenderReadOnly ==
    [][ (call = Idle /\ call'.op \in {"display", "save"})
        => (_selected_systems' = _selected_systems /\ _all_systems' = _all_systems) ]_vars

\* A save that returned while a proper window of the catalog was selected.
C14_Witness ==
    /\ call.op = "save"
    /\ ~call.raised
    /\ _selected_systems # _all_systems
    /\ ~NoRows(_selected_systems)

\* C15: every display and every save builds one heatmap, of the current
\* selection, on coords.x and coords.z with 1000 bins on each axis; display
\* then opens the viewer, save writes the file it was given, and they differ
\* in nothing else.
C15_RendererGetsCurrentSelection ==
    Rendering =>
        /\ EventsOfKind("density_heatmap") = {2}
        /\ trace[2] = <<"density_heatmap", _selected_systems, "coords.x", "coords.z",
                        1000, 1000>>
        /\ \A k \in DOMAIN trace :
             /\ trace[k][1] = "show" => (k = 3 /\ call.op = "display")
             /\ trace[k][1] = "write_html" =>
                  (k = 3 /\ call.op = "save" /\ trace[k] = <<"write_html", call.filename>>)
        /\ ~call.raised =>
             (Len(trace) = 4 /\ trace[3][1] = IF call.op = "display" THEN "show"
                                              ELSE "write_html")

\* A display that returned while a proper, non-empty window of the catalog
\* was selected.
C15_Witness ==
    /\ call.op = "display"
    /\ ~call.raised
    /\ _selected_systems # _all_systems
    /\ ~NoRows(_selected_systems)

\* rows is rows of whole, some left out, in the same order.
IsSubSeq(rows, whole) ==
    \E f \in [DOMAIN rows -> DOMAIN whole] :
        /\ \A k, l \in DOMAIN rows : k < l => f[k] < f[l]
        /\ \A k \in DOMAIN rows : rows[k] = whole[f[k]]

\* C19: in every state of the constructed object the selection is a
\* sub-sequence of the catalog: catalog rows, none more often than in the
\* catalog, in catalog order.
C19_SelectionIsSubSequence ==
    systems = "ready" =>
        /\ IsSubSeq(_selected_systems.rows, _all_systems.rows)
        /\ _selected_systems.columns = _all_systems.columns

\* The selection is the second of two catalog systems.
C19_Witness ==
    /\ ZoomedIn
    /\ Len(_all_systems.rows) = 2
    /\ _selected_systems.rows = <<_all_systems.rows[2]>>

\* ---------------------------------------------------- front-end properties
\* Text that reads as an integer: an optional sign, then decimal digits.
IsIntegerText(text) ==
    \E sign \in {<<>>, <<"-">>, <<"+">>} :
        /\ Len(text) > Len(sign)
        /\ SubSeq(text, 1, Len(sign)) = sign
        /\ \A k \in (Len(sign) + 1)..Len(text) : text[k] \in DecimalDigits

\* A console parameter that gives a corner: two integers around one comma.
IsCornerText(param) ==
    \E k \in DOMAIN param :
        /\ param[k] = ","
        /\ IsIntegerText(SubSeq(param, 1, k - 1))
        /\ IsIntegerText(SubSeq(param, k + 1, Len(param)))

\* A zoom-in request of the console that is malformed: the zoom command with
\* parameters, other than two corners.
MalformedZoom(cmd_tokens) ==
    /\ Len(cmd_tokens) > 1
    /\ cmd_tokens[1] = "zoom"
    /\ ~(Len(cmd_tokens) = 3 /\ IsCornerText(cmd_tokens[2]) /\ IsCornerText(cmd_tokens[3]))

\* The entries the Zoom In handler has read hold text that is no integer.
MalformedEntries(entries) == \E k \in DOMAIN entries : ~IsIntegerText(entries[k])

\* No operation of Systems can run after a failed construction: the console
\* has left request_loop, the GUI process has exited (or is about to).
NoOperationAfterFailure ==
    systems = "failed" =>
        /\ console.pc \in {"none", "called", "crashed"}
        /\ gui.pc # "none" => (gui.pc = "killed" \/ WorkerAt("systems_init", "called"))

\* C11: a document that is not an array of objects makes construction fail,
\* and after a failed construction no display or zoom runs in the session:
\* the console never reaches its prompt, the GUI process exits.
C11_NonArrayDocumentRejected ==
    /\ (json_type # "list" /\ systems # "unconstructed") => systems = "failed"
    /\ NoOperationAfterFailure

\* C12: a malformed zoom-in request never reaches Systems.zoom_in, leaves the
\* selection unchanged, and the session goes on: the console is back at its
\* prompt, the GUI worker returns and generates its completion event.
C12_MalformedZoomRejected ==
    [][ /\ (console.pc = "dispatch" /\ MalformedZoom(console.cmd_tokens))
           => /\ call' = Idle
              /\ _selected_systems' = _selected_systems
              /\ console'.pc = "prompt"
        /\ (gui'.worker.fn = "_handle_zoom_in" /\ MalformedEntries(gui'.worker.entries))
           => /\ call' = Idle
              /\ _selected_systems' = _selected_systems
              /\ gui'.worker.pc \in {"returned", "done", "died"}
              /\ gui'.worker.pc = "done"
                   => (gui'.events > 0 \/ gui'.pc \in {"_long_op_post", "exiting"})
              /\ gui'.worker.pc = "died" => gui'.pc = "exiting" ]_vars

\* The console is back at its prompt after a zoom whose corners have two
\* parts each but do not parse, with the earlier zoom still in effect.
C12_Witness ==
    /\ console.pc = "prompt"
    /\ console.out = <<"Parse error: %s", "help">>
    /\ systems = "ready"
    /\ _selected_systems # _all_systems

\* C16: at most one long operation is in flight: _handle_long_op is entered
\* only while _longop_thread is None, _long_op_post only while it is not, so
\* neither "BUG" RuntimeError is raised.
C16_OneLongOpInFlight ==
    /\ gui.raised \notin {"BUG: long op thread should be None",
                          "BUG: long op thread should not be None"}
    /\ gui._longop_thread = "None" <=> gui.worker = NoWorker
    /\ gui.events <= 1
    /\ gui.events > 0 => gui._longop_thread = "Thread"
    /\ (gui.pc = "mainloop" /\ \E b \in {"Display", "Zoom In"} : gui.buttons[b] = "normal")
         => gui._longop_thread = "None"

\* A Display started by a click, after initialization was recovered from,
\* has completed and its event waits for the UI thread.
C16_Witness ==
    /\ WorkerAt("_handle_display", "done")
    /\ gui.events = 1
    /\ gui.pc = "mainloop"

\* C17: the Zoom Out handler runs only while no worker thread exists, and a
\* zoom_in runs only on the worker of Zoom In: no zoom assigns the selection
\* while a Display is in flight.
C17_ZoomOutOnlyWithoutWorker ==
    gui.pc # "none" =>
        /\ gui.pc = "_handle_zoom_out" => (gui._longop_thread = "None" /\ gui.worker = NoWorker)
        /\ call.op = "zoom_out" => gui.worker = NoWorker
        /\ call.op = "zoom_in" => gui.worker.fn = "_handle_zoom_in"
        /\ gui.worker.fn = "_handle_display" => call.op \in {"none", "display"}

\* Zoom Out runs after a Zoom In has narrowed the selection.
C17_Witness ==
    /\ gui.pc = "_handle_zoom_out"
    /\ call.op = "zoom_out"
    /\ call.before # _all_systems

\* C20: a long operation started by a click is followed by recovery whatever
\* it does: once its worker has ended while the UI thread is in mainloop and
\* _longop_thread is still set, the completion event is in the queue, which
\* is the only way _long_op_post can run and enable the buttons again.
C20_LongOpRecovers ==
    (/\ gui.pc = "mainloop"
     /\ gui._longop_thread = "Thread"
     /\ gui.worker.fn \in {"_handle_display", "_handle_zoom_in"}
     /\ Ended(gui.worker))
        => gui.events > 0

\* C18: a render works on the selection as of its start: while it is at work
\* the frame it holds has the contents it was handed, whatever zoom runs in
\* between, and that is what density_heatmap has plotted when it ends; the
\* attributes name frames with the contents of the catalog and the selection.
C18_RenderUsesSnapshot ==
    /\ memory.render.pc = "plotting"
         => memory.heap[memory.render.data] = memory.render.handed
    /\ call.op \in {"display", "save"} => trace[2][2] = call.handed
    /\ systems = "ready"
         => /\ memory.heap[memory.all] = _all_systems
            /\ memory.heap[memory.selected] = _selected_systems

\* A zoom_in has run while a render of the whole catalog was at work, and the
\* selection is now another frame with other contents.
C18_Witness ==
    /\ memory.render.pc = "plotting"
    /\ call.op = "zoom_in"
    /\ ~call.raised
    /\ memory.render.data # memory.selected
    /\ memory.render.data = memory.all
    /\ memory.render.handed # _selected_systems
    /\ ~NoRows(memory.render.handed)

\* C21: in the GUI no operation of Systems is invoked while _systems is None:
\* a button is enabled, a handler runs on the worker or on the UI thread, and
\* a call on Systems is made, only once initialization has assigned _systems;
\* no handler fails on the missing object.
C21_NoOperationBeforeInit ==
    (gui.pc # "none" /\ gui._systems = "None") =>
        /\ gui.raised # "AttributeError"
        /\ call.op \in {"none", "__init__"}
        /\ gui.worker.fn \in {"none", "systems_init"}
        /\ gui.pc # "_handle_zoom_out"
        /\ gui.pc = "mainloop" => \A b \in Buttons : gui.buttons[b] = "disabled"

\* Display runs on the worker, through a button that the recovery from
\* initialization has enabled.
C21_Witness ==
    /\ WorkerAt("_handle_display", "called")
    /\ call.op = "display"
    /\ ~call.raised
    /\ gui._systems = "Systems"

\* The calls of C22 and the places of their log lines and effects in a trace.
LoggedOperation == call.op \in {"zoom_in", "zoom_out", "display", "save"}
LogLines == EventsOfKind("log")
Effects ==
    IF call.op \in {"zoom_in", "zoom_out"}
    THEN { k \in DOMAIN trace : trace[k] = <<"assign", "_selected_systems">> }
    ELSE EventsOfKind("density_heatmap") \cup EventsOfKind("show")
         \cup EventsOfKind("write_html")
CarriesCorners ==
    call.op = "zoom_in" =>
        trace[1] = <<"log", <<"Zooming in to area between coordinates (%d,%d) and (%d,%d)...",
                              call.coord_0[1], call.coord_0[2],
                              call.coord_1[1], call.coord_1[2]>>>>

\* C22 as stated: every zoom_in, zoom_out, display and save logs exactly two
\* lines, the first before its effect and the second after it, and the first
\* line of zoom_in carries the four coordinates supplied.
C22_TwoLogLinesAroundEffect ==
    LoggedOperation =>
        /\ Cardinality(LogLines) = 2
        /\ Effects # {}
        /\ \A k \in Effects : \E i, j \in LogLines : i < k /\ k < j
        /\ CarriesCorners

\* C22 on what the calls do: a call that returns logs exactly two lines, its
\* first before every effect and its last after every effect; a call that
\* raises has logged its first line only, before anything else it did, and
\* has not replaced the selection; the first line of a zoom_in carries the
\* four coordinates in the order supplied either way.
C22_LogLinesAroundEffect ==
    LoggedOperation =>
        /\ CarriesCorners
        /\ trace[1][1] = "log"
        /\ ~call.raised =>
              /\ LogLines = {1, Len(trace)}
              /\ Len(trace) > 2
              /\ Effects = 2..(Len(trace) - 1)
        /\ call.raised =>
              /\ LogLines = {1}
              /\ call.op \in {"zoom_in", "zoom_out"} => Effects = {}

\* A zoom_in that returned and selected a system, its corners supplied with
\* the upper x first and with x and z unlike, so that the order the line
\* shows them in is told apart.
C22_Witness ==
    /\ ZoomedIn
    /\ call.coord_0[1] > call.coord_1[1]
    /\ call.coord_0[1] # call.coord_0[2]
    /\ ~NoRows(_selected_systems)

\* The script and the Console are both back at their prompts and hold the
\* same catalog and the same selection.
BothAtPrompt == console.pc = "prompt" /\ script.pc = "prompt"
SameFrames ==
    /\ script.all_systems = _all_systems
    /\ script.selected_systems = _selected_systems

\* C23: after every command that the standalone script and the Console have
\* both dealt with, the script's selected_systems equals _selected_systems of
\* the Systems object behind the Console.
C23_RevisionsAgree == BothAtPrompt => SameFrames

\* As long as every line typed had single blanks between its pieces and none
\* around them, the two do agree.
PlainLinesAgree == (BothAtPrompt /\ script.plain) => SameFrames

====
